---- MODULE Spec2Model ----
(***************************************************************************)
(* Model of Controller.addTiltAndDecentreAboutPivot and its convenience   *)
(* wrapper Controller.addTiltAndDecentre (src/Controller.py), run against *)
(* a model of the remote lens session (zmx_link) that follows sections    *)
(* 3, 4.1 and 4.2 of the specification.                                   *)
(*                                                                         *)
(* The session holds an ordered sequence of surfaces.  Every surface has  *)
(* a kind, a comment, a thickness, six parameter values and one solve     *)
(* (constraint) per slot.  A solve is the positional tuple the session    *)
(* API exchanges: <<solvetype, param1, param2, param3, param4>>.          *)
(* All numbers are integers: surface numbers are integers in the session  *)
(* and Python's int() of an integer is that integer.                      *)
(***************************************************************************)
EXTENDS Integers, Sequences, FiniteSets, TLC

VARIABLES dde, lde, calls

vars == <<dde, lde, calls>>

(***************************************************************************)
(* Bounds of the model.                                                    *)
(***************************************************************************)
\* longest surface sequence the session starts with
MaxOrig == 6
\* a controller operation is only started on a sequence of at most this length
MaxCallLen == 7
\* setFieldType is called at most this many times in a row
MaxFieldCalls == 2

(***************************************************************************)
(* Solve codes of the session API, as the controller uses them.            *)
(***************************************************************************)
SOLVE_THICK_FIXED == 0
SOLVE_THICK_VAR == 1
SOLVE_THICK_MRA == 2
SOLVE_THICK_PICKUP == 5
SOLVE_THICK_POS == 7
SOLVE_THICK_COMP == 8
SOLVE_THICK_COC == 9
SOLVE_GLASS_PICKUP == 2
SOLVE_PARn_PICKUP == 2
\* pickup column of parameter 1 (range(6, 11) covers parameters 1..5)
FirstPickupColumn == 6
\* the coordinate-break order flag is parameter 6
OrderParam == 6

\* solve types of a thickness whose param1 is an integer surface number
SurfaceRefSolveTypes == {5, 7, 8, 9}

(***************************************************************************)
(* Input sets of the model.                                                *)
(***************************************************************************)
\* <<pivot_z, <<x_c, y_c, x_tilt, y_tilt>>, order>>: each value of each input
\* occurs in one request
PivotRequests == { <<0, <<1, -2, 3, -1>>, 0>>, <<2, <<0, 4, -3, 2>>, 1>> }
\* <<<<x_c, y_c, x_tilt, y_tilt>>, order>>
FrontRequests == { <<<<1, -2, 3, -1>>, 0>> }
\* field_type arguments: the enumeration 0..3 and a value on either side
FieldTypes == {-1, 0, 1, 2, 3, 4}
\* param1 of a solve that carries a literal, not a surface number
LiteralParam == 5
\* length of a position solve of the initial sequence
PosLength == 9
\* thickness profiles of the initial sequence: surface i of profile a
ProfileSeeds == {3}
ProfileThick(a, i) == ((a * i) % 7) + 1

(***************************************************************************)
(* Session: the surface sequence model (specification 3, 4.1, 4.2).       *)
(***************************************************************************)
Pad5(t) == [i \in 1..5 |-> IF i <= Len(t) THEN t[i] ELSE 0]

FixedSolve == Pad5(<<SOLVE_THICK_FIXED>>)

\* an attribute-default surface; uid is its identity, which never changes
BlankSurface(uid) ==
  [uid |-> uid, kind |-> "STANDARD", comment |-> "", thick |-> 0,
   thickSolve |-> FixedSolve, glassSolve |-> FixedSolve,
   par |-> [p \in 1..6 |-> 0],
   parSolve |-> [p \in 1..5 |-> FixedSolve]]

\* a stored surface reference at or above an insertion point moves up by one
ShiftRef(r, idx) == IF r >= idx THEN r + 1 ELSE r

ShiftThickSolve(sv, idx) ==
  IF sv[1] \in SurfaceRefSolveTypes THEN [sv EXCEPT ![2] = ShiftRef(@, idx)] ELSE sv

ShiftGlassSolve(sv, idx) ==
  IF sv[1] = SOLVE_GLASS_PICKUP THEN [sv EXCEPT ![2] = ShiftRef(@, idx)] ELSE sv

ShiftParSolve(sv, idx) ==
  IF sv[1] = SOLVE_PARn_PICKUP THEN [sv EXCEPT ![2] = ShiftRef(@, idx)] ELSE sv

ShiftSurface(sf, idx) ==
  [sf EXCEPT !.thickSolve = ShiftThickSolve(@, idx),
             !.glassSolve = ShiftGlassSolve(@, idx),
             !.parSolve = [p \in 1..5 |-> ShiftParSolve(@[p], idx)]]

\* insertAt(index): a blank surface at idx, everything at or above it one up
InsertAt(s, idx, uid) ==
  [i \in 1..(Len(s) + 1) |->
     IF i < idx THEN ShiftSurface(s[i], idx)
     ELSE IF i = idx THEN BlankSurface(uid)
     ELSE ShiftSurface(s[i - 1], idx)]

\* cumulative axial position of surface i: the thicknesses before it
RECURSIVE Pos(_, _)
Pos(s, i) == IF i <= 1 THEN 0 ELSE Pos(s, i - 1) + s[i - 1].thick

\* the value a thickness solve gives surface i (surfaces before i resolved)
ResolveThick(s, i) ==
  LET sv == s[i].thickSolve
  IN  IF sv[1] = SOLVE_THICK_PICKUP /\ sv[2] \in 1..(i - 1)
        THEN sv[4] + sv[3] * s[sv[2]].thick
      ELSE IF sv[1] = SOLVE_THICK_POS /\ sv[2] \in 1..i
        THEN Pos(s, sv[2]) + sv[3] - Pos(s, i)
      ELSE s[i].thick

\* the value a parameter solve gives slot p of surface i
ResolvePar(s, i, p) ==
  LET sv == s[i].parSolve[p]
      q == IF sv[5] = 0 THEN p ELSE sv[5] - FirstPickupColumn + 1
  IN  IF sv[1] = SOLVE_PARn_PICKUP /\ sv[2] \in 1..(i - 1) /\ q \in 1..6
        THEN sv[3] + sv[4] * s[sv[2]].par[q]
      ELSE s[i].par[p]

RECURSIVE ResolveFrom(_, _)
ResolveFrom(s, i) ==
  IF i > Len(s) THEN s
  ELSE ResolveFrom(
         [s EXCEPT ![i] = [@ EXCEPT !.thick = ResolveThick(s, i),
                                    !.par = [p \in 1..6 |->
                                               IF p <= 5 THEN ResolvePar(s, i, p)
                                               ELSE @[p]]]],
         i + 1)

\* the update of the session: every solve is evaluated, lowest surface first
Resolve(s) == ResolveFrom(s, 1)

(***************************************************************************)
(* Session calls.  A call is a record; the log of an operation is the     *)
(* sequence of calls it issued.                                            *)
(***************************************************************************)
Cmd(op, surf, code, par, val) ==
  [op |-> op, surf |-> surf, code |-> code, par |-> par, val |-> val]

\* the state a controller operation threads through its session calls
SessionState(seq, pushed) ==
  [seq |-> seq, lde |-> pushed, log |-> <<>>, ok |-> TRUE, nIns |-> 0]

InRange(st, c) == c.surf \in 1..Len(st.seq)

\* the effect of one successful session call on the surface sequence
CallEffect(st, c, uidBase) ==
  CASE c.op = "zInsertSurface" ->
         [st EXCEPT !.seq = InsertAt(@, c.surf, uidBase + st.nIns + 1),
                    !.nIns = @ + 1]
    [] c.op = "zSetSurfaceData" /\ c.code = "SDAT_COMMENT" ->
         [st EXCEPT !.seq[c.surf].comment = c.val[1]]
    [] c.op = "zSetSurfaceData" /\ c.code = "SDAT_TYPE" ->
         [st EXCEPT !.seq[c.surf].kind = c.val[1]]
    [] c.op = "zSetSurfaceData" /\ c.code = "SDAT_THICK" ->
         [st EXCEPT !.seq[c.surf].thick = c.val[1]]
    [] c.op = "zSetSolve" /\ c.code = "SOLVE_SPAR_THICK" ->
         [st EXCEPT !.seq[c.surf].thickSolve = Pad5(c.val)]
    [] c.op = "zSetSolve" /\ c.code = "SOLVE_SPAR_GLASS" ->
         [st EXCEPT !.seq[c.surf].glassSolve = Pad5(c.val)]
    [] c.op = "zSetSolve" /\ c.code = "SOLVE_SPAR_PAR" ->
         [st EXCEPT !.seq[c.surf].parSolve[c.par] = Pad5(c.val)]
    [] c.op = "zSetSurfaceParameter" ->
         [st EXCEPT !.seq[c.surf].par[c.par] = c.val[1]]
    [] c.op = "zGetUpdate" ->
         [st EXCEPT !.seq = Resolve(@)]
    [] c.op = "zPushLens" ->
         [st EXCEPT !.lde = st.seq]
    [] OTHER -> st

\* calls that name a surface fail when it is outside 1..current length
NeedsSurface(c) ==
  c.op \in {"zInsertSurface", "zSetSurfaceData", "zSetSolve", "zSetSurfaceParameter",
            "zGetSurfaceData", "zGetSolve"}

\* one session call: it is logged, and it either takes effect or fails
ApplyCmd(st, c, uidBase) ==
  IF NeedsSurface(c) /\ ~InRange(st, c)
    THEN [st EXCEPT !.log = Append(@, c), !.ok = FALSE]
    ELSE [CallEffect(st, c, uidBase) EXCEPT !.log = Append(@, c)]

\* mutant of Run: the calls after a failed one are issued all the same
RECURSIVE Run_Resume(_, _, _, _)
Run_Resume(st, cmds, i, uidBase) ==
  IF i > Len(cmds) \/ st.nIns > 4 THEN st
  ELSE Run_Resume(ApplyCmd(st, cmds[i], uidBase), cmds, i + 1, uidBase)

\* the calls of cmds from the i-th on, in order; a failure ends the operation
RECURSIVE Run(_, _, _, _)
Run(st, cmds, i, uidBase) ==
  IF i > Len(cmds) \/ ~st.ok THEN st
  ELSE Run(ApplyCmd(st, cmds[i], uidBase), cmds, i + 1, uidBase)

(***************************************************************************)
(* Controller (src/Controller.py).                                         *)
(***************************************************************************)
\* Controller._updateDDE
UpdateDDE ==
  << Cmd("zOptimize", 0, "", 0, <<-1>>),
     Cmd("zGetUpdate", 0, "", 0, <<>>) >>

\* mutant of DDEToLDE: the lens updated and never pushed
DDEToLDE_NoPush == UpdateDDE

\* Controller.DDEToLDE
DDEToLDE == UpdateDDE \o << Cmd("zPushLens", 0, "", 0, <<>>) >>

NumSurfBetweenCBs(firstSurf, lastSurf) == lastSurf - firstSurf + 1

\* the new surface numbers
S1Index(firstSurf) == firstSurf

Cb1Index(firstSurf) == firstSurf + 1

\* mutant of Cb2Index: one surface too far
Cb2Index_OffByOne(firstSurf, lastSurf) ==
  Cb1Index(firstSurf) + NumSurfBetweenCBs(firstSurf, lastSurf) + 2

Cb2Index(firstSurf, lastSurf) ==
  Cb1Index(firstSurf) + NumSurfBetweenCBs(firstSurf, lastSurf) + 1

\* mutant of DummyIndex: a gap left after cb2
DummyIndex_OffByOne(firstSurf, lastSurf) == Cb2Index(firstSurf, lastSurf) + 2

DummyIndex(firstSurf, lastSurf) == Cb2Index(firstSurf, lastSurf) + 1

\* mutant of ShiftedLastSurf: only one of the two insertions counted
ShiftedLastSurf_One(lastSurf) == lastSurf + 1

\* the trailing surface of the group once s1 and cb1 are below it
ShiftedLastSurf(lastSurf) == lastSurf + 2

\* mutant of MigratedParam1: a reference equal to cb1 left as it is
MigratedParam1_Inclusive(solve, cb1) ==
  IF solve[1] \in SurfaceRefSolveTypes
    THEN (IF solve[2] <= cb1 THEN solve[2] ELSE solve[2] + 1)
    ELSE solve[2]

\* param1 of the thickness solve handed on to the dummy surface
MigratedParam1(solve, cb1) ==
  IF solve[1] \in SurfaceRefSolveTypes
    THEN (IF solve[2] < cb1 THEN solve[2] ELSE solve[2] + 1)
    ELSE solve[2]

Cb1Ord(order) == IF order # 0 THEN 1 ELSE 0

\* mutant of Cb2Ord: cb2 given the order of cb1
Cb2Ord_Same(order) == IF order # 0 THEN 1 ELSE 0

Cb2Ord(order) == IF order # 0 THEN 0 ELSE 1

\* mutant of RestoreSolve: the thickness of the trailing surface picked up as it is
RestoreSolve_NotInverted(lastSurf) == <<SOLVE_THICK_PICKUP, lastSurf, 1, 0, 0>>

\* the thickness solve of cb2: the inverse of the thickness of the trailing surface
RestoreSolve(lastSurf) == <<SOLVE_THICK_PICKUP, lastSurf, -1, 0, 0>>

\* mutant of MirrorCommands: offset and scale in each other's place
MirrorCommands_Swapped(cb1, cb2) ==
  [p \in 1..5 |->
     Cmd("zSetSolve", cb2, "SOLVE_SPAR_PAR", p,
         <<SOLVE_PARn_PICKUP, cb1, -1, 0, FirstPickupColumn + p - 1>>)]

\* mutant of MirrorCommands: the pickups taken from cb2 itself
MirrorCommands_SelfRef(cb1, cb2) ==
  [p \in 1..5 |->
     Cmd("zSetSolve", cb2, "SOLVE_SPAR_PAR", p,
         <<SOLVE_PARn_PICKUP, cb2, 0, -1, FirstPickupColumn + p - 1>>)]

\* pick-up solves on the five parameters of cb2, offset 0 and scale -1
MirrorCommands(cb1, cb2) ==
  [p \in 1..5 |->
     Cmd("zSetSolve", cb2, "SOLVE_SPAR_PAR", p,
         <<SOLVE_PARn_PICKUP, cb1, 0, -1, FirstPickupColumn + p - 1>>)]

\* decentre and tilt values written to parameters 1..5 of cb1
ValueCommands(cb1, x_c, y_c, x_tilt, y_tilt) ==
  LET values == <<x_c, y_c, x_tilt, y_tilt, 0>>
  IN  [p \in 1..5 |-> Cmd("zSetSurfaceParameter", cb1, "", p, <<values[p]>>)]

\* the two reads that come before any insertion
ReadCommands(lastSurf) ==
  << Cmd("zGetSurfaceData", lastSurf, "SDAT_THICK", 0, <<>>),
     Cmd("zGetSolve", lastSurf, "SOLVE_SPAR_THICK", 0, <<>>) >>

\* every session call after the reads, given what the reads returned
WriteCommands(a, thick, solve) ==
  LET s1 == S1Index(a.firstSurf)
      cb1 == Cb1Index(a.firstSurf)
      cb2 == Cb2Index(a.firstSurf, a.lastSurf)
      dummy == DummyIndex(a.firstSurf, a.lastSurf)
      lastSurf == ShiftedLastSurf(a.lastSurf)
  IN  << Cmd("zInsertSurface", s1, "", 0, <<>>),
         Cmd("zInsertSurface", cb1, "", 0, <<>>),
         Cmd("zInsertSurface", cb2, "", 0, <<>>),
         Cmd("zInsertSurface", dummy, "", 0, <<>>),
         Cmd("zSetSurfaceData", s1, "SDAT_COMMENT", 0, <<"Move to pivot">>),
         Cmd("zSetSurfaceData", cb1, "SDAT_COMMENT", 0,
             <<"Element tilt and return from pivot">>),
         Cmd("zSetSurfaceData", cb1, "SDAT_TYPE", 0, <<"COORDBRK">>),
         Cmd("zSetSurfaceData", cb2, "SDAT_COMMENT", 0,
             <<"Element tilt return and move to rear">>),
         Cmd("zSetSurfaceData", cb2, "SDAT_TYPE", 0, <<"COORDBRK">>),
         Cmd("zSetSurfaceData", cb2, "SDAT_COMMENT", 0, <<"Return to pivot">>),
         Cmd("zSetSurfaceData", dummy, "SDAT_COMMENT", 0, <<"Dummy distance">>),
         Cmd("zSetSurfaceData", lastSurf, "SDAT_THICK", 0, <<0>>),
         Cmd("zSetSolve", lastSurf, "SOLVE_SPAR_THICK", 0, <<SOLVE_THICK_FIXED>>),
         Cmd("zSetSurfaceData", dummy, "SDAT_THICK", 0, <<thick>>),
         Cmd("zSetSolve", dummy, "SOLVE_SPAR_THICK", 0,
             <<solve[1], MigratedParam1(solve, cb1), solve[3], solve[4], solve[5]>>),
         Cmd("zSetSolve", dummy, "SOLVE_SPAR_GLASS", 0,
             <<SOLVE_GLASS_PICKUP, lastSurf>>) >>
      \o MirrorCommands(cb1, cb2)
      \o << Cmd("zSetSolve", s1, "SOLVE_SPAR_THICK", 0, <<SOLVE_THICK_FIXED>>),
            Cmd("zSetSurfaceData", s1, "SDAT_THICK", 0, <<a.pivot_z>>),
            Cmd("zSetSolve", cb1, "SOLVE_SPAR_THICK", 0,
                <<SOLVE_THICK_PICKUP, s1, -1, 0, 0>>),
            Cmd("zSetSolve", lastSurf, "SOLVE_SPAR_THICK", 0,
                <<SOLVE_THICK_POS, cb1, 0>>),
            Cmd("zSetSolve", cb2, "SOLVE_SPAR_THICK", 0, RestoreSolve(lastSurf)),
            Cmd("zSetSurfaceParameter", cb1, "", OrderParam, <<Cb1Ord(a.order)>>),
            Cmd("zSetSurfaceParameter", cb2, "", OrderParam, <<Cb2Ord(a.order)>>) >>
      \o ValueCommands(cb1, a.x_c, a.y_c, a.x_tilt, a.y_tilt)
      \o << Cmd("zGetUpdate", 0, "", 0, <<>>) >>
      \o DDEToLDE

\* the run of addTiltAndDecentreAboutPivot on sequence seq with arguments a
PivotRun(seq, pushed, a, uidBase) ==
  LET rd == Run(SessionState(seq, pushed), ReadCommands(a.lastSurf), 1, uidBase)
  IN  IF ~rd.ok THEN rd
      ELSE Run(rd, WriteCommands(a, seq[a.lastSurf].thick, seq[a.lastSurf].thickSolve),
               1, uidBase)

\* what the operation returns: (cb1, cb2, dummy)
PivotReturn(a) ==
  << Cb1Index(a.firstSurf), Cb2Index(a.firstSurf, a.lastSurf),
     DummyIndex(a.firstSurf, a.lastSurf) >>

Args(f, l, pz, dt, o) ==
  [firstSurf |-> f, lastSurf |-> l, pivot_z |-> pz, x_c |-> dt[1], y_c |-> dt[2],
   x_tilt |-> dt[3], y_tilt |-> dt[4], order |-> o]

\* identities of the surfaces the n-th operation inserts: base + 1..4
UidBase(n) == 10 * n

\* an operation is started on a session no earlier operation has failed on
CanCall ==
  /\ Len(dde) <= MaxCallLen
  /\ \A k \in 1..Len(calls) : calls[k].status = "ok"

CallRecord(op, a, r, ret) ==
  [op |-> op, args |-> a, pre |-> dde, status |-> IF r.ok THEN "ok" ELSE "error",
   ret |-> IF r.ok THEN ret ELSE <<>>, log |-> r.log]

AddTiltAndDecentreAboutPivot ==
  /\ CanCall
  /\ \E f \in 1..(Len(dde) + 1), q \in PivotRequests :
       \E l \in f..(Len(dde) + 1) :
         \E a \in {Args(f, l, q[1], q[2], q[3])} :
           \E r \in {PivotRun(dde, lde, a, UidBase(Len(calls) + 1))} :
             /\ dde' = r.seq
             /\ lde' = r.lde
             /\ calls' = Append(calls,
                  CallRecord("addTiltAndDecentreAboutPivot", a, r, PivotReturn(a)))

\* addTiltAndDecentre calls self.addTiltAndDecentreFromPivot, which the class
\* does not define: the attribute lookup raises before any session call
FrontRun(seq, pushed, a, uidBase) ==
  [SessionState(seq, pushed) EXCEPT !.ok = FALSE]

AddTiltAndDecentre ==
  /\ CanCall
  /\ \E f \in 1..(Len(dde) + 1), q \in FrontRequests :
       \E l \in f..(Len(dde) + 1) :
         \E a \in {Args(f, l, 0, q[1], q[2])} :
           \E r \in {FrontRun(dde, lde, a, UidBase(Len(calls) + 1))} :
             /\ dde' = r.seq
             /\ lde' = r.lde
             /\ calls' = Append(calls, CallRecord("addTiltAndDecentre", a, r, <<>>))

\* the system property that holds the field type
FieldTypeProperty == 100

\* the condition under which setFieldType writes: field_type >= 0 or field_type <= 3
WritesFieldType(field_type) == field_type >= 0 \/ field_type <= 3

\* the run of setFieldType: the property written, or ControllerFunctionError raised
FieldRun(seq, pushed, field_type, uidBase) ==
  IF WritesFieldType(field_type)
    THEN Run(SessionState(seq, pushed),
             << Cmd("zSetSystemProperty", 0, "", FieldTypeProperty, <<field_type>>) >>,
             1, uidBase)
    ELSE [SessionState(seq, pushed) EXCEPT !.ok = FALSE]

SetFieldType ==
  /\ CanCall
  /\ Len(calls) < MaxFieldCalls
  /\ \E ft \in FieldTypes :
       \E r \in {FieldRun(dde, lde, ft, UidBase(Len(calls) + 1))} :
         /\ dde' = r.seq
         /\ lde' = r.lde
         /\ calls' = Append(calls,
              CallRecord("setFieldType", [field_type |-> ft], r, <<>>))

(***************************************************************************)
(* Initial sequences: 1..MaxOrig surfaces with fixed thicknesses, at most  *)
(* one of them carrying another thickness solve, all solves resolved.      *)
(***************************************************************************)
InitialSolves(k) ==
  {FixedSolve, Pad5(<<SOLVE_THICK_VAR>>), Pad5(<<SOLVE_THICK_MRA, LiteralParam>>)}
  \cup {Pad5(<<SOLVE_THICK_PICKUP, r, 1>>) : r \in 1..(k - 1)}
  \cup {Pad5(<<SOLVE_THICK_POS, r, PosLength>>) : r \in 1..(k - 1)}
  \cup {Pad5(<<SOLVE_THICK_COMP, r>>) : r \in 1..(k - 1)}
  \cup {Pad5(<<SOLVE_THICK_COC, r>>) : r \in 1..(k - 1)}

InitialSequence(n, a, k, sv) ==
  Resolve([i \in 1..n |->
             [BlankSurface(i) EXCEPT !.thick = ProfileThick(a, i),
                                     !.thickSolve = IF i = k THEN sv ELSE FixedSolve]])

Init ==
  /\ \E n \in 1..MaxOrig, a \in ProfileSeeds :
       \E k \in 1..n :
         \E sv \in InitialSolves(k) : dde = InitialSequence(n, a, k, sv)
  /\ lde = dde
  /\ calls = <<>>

Next == AddTiltAndDecentreAboutPivot \/ AddTiltAndDecentre

Spec == Init /\ [][Next]_vars

\* the field operations of the controller on the same sessions
FieldNext == SetFieldType

FieldSpec == Init /\ [][FieldNext]_vars

(***************************************************************************)
(* Vocabulary of the properties.                                           *)
(***************************************************************************)
IsPivot(k) == calls[k].op = "addTiltAndDecentreAboutPivot"

\* the completed runs of addTiltAndDecentreAboutPivot on a group first <= last
Completed ==
  {k \in 1..Len(calls) :
     /\ IsPivot(k)
     /\ calls[k].status = "ok"
     /\ calls[k].args.firstSurf <= calls[k].args.lastSurf}

\* the surface sequence right after the k-th operation
Post(k) == IF k = Len(calls) THEN dde ELSE calls[k + 1].pre

First(k) == calls[k].args.firstSurf
Last(k) == calls[k].args.lastSurf
RetCb1(k) == calls[k].ret[1]
RetCb2(k) == calls[k].ret[2]
RetDummy(k) == calls[k].ret[3]

\* thickness and thickness solve of the trailing surface before the k-th operation
Thick0(k) == calls[k].pre[Last(k)].thick
Solve0(k) == calls[k].pre[Last(k)].thickSolve

HasUid(s, i, u) == i \in 1..Len(s) /\ s[i].uid = u

(***************************************************************************)
(* C1 (as stated): for every pair firstSurface <= lastSurface of indices   *)
(* into the sequence, lastSurface equal to the sequence length included,   *)
(* the transform completes and leaves the sequence 4 surfaces longer.      *)
(***************************************************************************)
C1_AsStated ==
  \A k \in 1..Len(calls) :
    (IsPivot(k) /\ First(k) <= Last(k) /\ Last(k) <= Len(calls[k].pre))
      => (calls[k].status = "ok" /\ Len(Post(k)) = Len(calls[k].pre) + 4)

(***************************************************************************)
(* C1 (amended): for every pair firstSurface <= lastSurface with           *)
(* lastSurface below the sequence length the transform completes and       *)
(* leaves the sequence exactly 4 surfaces longer; with lastSurface equal   *)
(* to the sequence length the insertion of cb2 is out of range and the     *)
(* transform ends in error with the sequence 2 surfaces longer.            *)
(***************************************************************************)
C1_LengthPlusFour ==
  \A k \in 1..Len(calls) :
    (IsPivot(k) /\ First(k) <= Last(k))
      => /\ Last(k) < Len(calls[k].pre)
              => (calls[k].status = "ok" /\ Len(Post(k)) = Len(calls[k].pre) + 4)
         /\ Last(k) = Len(calls[k].pre)
              => (calls[k].status = "error" /\ Len(Post(k)) = Len(calls[k].pre) + 2)

C1_Witness ==
  \E k \in Completed :
    First(k) < Last(k) /\ Last(k) = Len(calls[k].pre) - 1 /\ Len(Post(k)) = Len(calls[k].pre) + 4

(***************************************************************************)
(* C2 (as stated): the returned indices satisfy cb2 - cb1 = lastSurface -  *)
(* firstSurface + 3; for the group 3..5 the new indices are cb1 = 4,       *)
(* cb2 = 9, dummy = 10.                                                    *)
(***************************************************************************)
C2_AsStated ==
  \A k \in Completed :
    /\ RetCb2(k) - RetCb1(k) = Last(k) - First(k) + 3
    /\ (First(k) = 3 /\ Last(k) = 5) => calls[k].ret = <<4, 9, 10>>

(***************************************************************************)
(* C2 (amended): the returned indices satisfy cb2 - cb1 = lastSurface -    *)
(* firstSurface + 2 and are the places of the inserted surfaces; for the   *)
(* group 3..5 the new surfaces are at s1 = 3, cb1 = 4, cb2 = 8, dummy = 9. *)
(***************************************************************************)
C2_ReturnedIndices ==
  \A k \in Completed :
    /\ RetCb2(k) - RetCb1(k) = Last(k) - First(k) + 2
    /\ HasUid(Post(k), First(k), UidBase(k) + 1)
    /\ HasUid(Post(k), RetCb1(k), UidBase(k) + 2)
    /\ HasUid(Post(k), RetCb2(k), UidBase(k) + 3)
    /\ HasUid(Post(k), RetDummy(k), UidBase(k) + 4)
    /\ (First(k) = 3 /\ Last(k) = 5)
         => (calls[k].ret = <<4, 8, 9>> /\ HasUid(Post(k), 3, UidBase(k) + 1))

C2_Witness ==
  \E k \in Completed :
    First(k) = 3 /\ Last(k) = 5 /\ HasUid(Post(k), 9, UidBase(k) + 4)

(***************************************************************************)
(* C3: the thickness solve of the dummy surface is the one read from the   *)
(* trailing surface before the call, with param1 unchanged when the solve  *)
(* type is not one of 5, 7, 8, 9 or when param1 is below cb1, and param1   *)
(* plus 1 when the type is one of them and param1 is at or above cb1.      *)
(***************************************************************************)
C3_MigratedSolve ==
  \A k \in Completed :
    LET old == Solve0(k)
        new == Post(k)[RetDummy(k)].thickSolve
    IN  /\ new[1] = old[1]
        /\ new[3] = old[3] /\ new[4] = old[4] /\ new[5] = old[5]
        /\ (old[1] \in {5, 7, 8, 9} /\ old[2] < RetCb1(k)) => new[2] = old[2]
        /\ (old[1] \in {5, 7, 8, 9} /\ old[2] >= RetCb1(k)) => new[2] = old[2] + 1
        /\ old[1] \notin {5, 7, 8, 9} => new[2] = old[2]

C3_Witness ==
  \E k \in Completed :
    /\ Solve0(k)[1] = SOLVE_THICK_POS
    /\ Solve0(k)[2] = RetCb1(k)
    /\ Post(k)[RetDummy(k)].thickSolve[2] = RetCb1(k) + 1

(***************************************************************************)
(* C4 (the claim): a pickup or position solve handed from the trailing     *)
(* surface to the dummy surface refers, after the call, to the surface it  *)
(* referred to before the call.                                            *)
(***************************************************************************)
C4_SameSurfaceReferenced ==
  \A k \in Completed :
    Solve0(k)[1] \in {SOLVE_THICK_PICKUP, SOLVE_THICK_POS}
      => HasUid(Post(k), Post(k)[RetDummy(k)].thickSolve[2],
                calls[k].pre[Solve0(k)[2]].uid)

(***************************************************************************)
(* C5: after the call each of the parameter slots 1..5 of cb2 carries a    *)
(* pickup of the same slot of cb1 with offset 0 and scale -1, and holds    *)
(* minus the value of that slot of cb1.                                    *)
(***************************************************************************)
C5_Cb2MirrorsCb1 ==
  \A k \in Completed :
    \A p \in 1..5 :
      /\ Post(k)[RetCb2(k)].parSolve[p] = <<2, RetCb1(k), 0, -1, p + 5>>
      /\ Post(k)[RetCb2(k)].par[p] = (-1) * Post(k)[RetCb1(k)].par[p]

C5_Witness ==
  \E k \in Completed :
    /\ calls[k].args.x_c = 1
    /\ Post(k)[RetCb1(k)].par = <<1, -2, 3, -1, 0, calls[k].args.order>>
    /\ Post(k)[RetCb2(k)].par[1] = -1
    /\ Post(k)[RetCb2(k)].par[4] = 1

(***************************************************************************)
(* C6: with order = 0 the order slot (parameter 6) of cb1 reads 0 and that *)
(* of cb2 reads 1; with order = 1 cb1 reads 1 and cb2 reads 0; the two     *)
(* slots always hold opposite values.                                      *)
(***************************************************************************)
C6_OppositeOrders ==
  \A k \in Completed :
    LET o1 == Post(k)[RetCb1(k)].par[6]
        o2 == Post(k)[RetCb2(k)].par[6]
    IN  /\ calls[k].args.order = 0 => (o1 = 0 /\ o2 = 1)
        /\ calls[k].args.order = 1 => (o1 = 1 /\ o2 = 0)
        /\ {o1, o2} = {0, 1}

C6_Witness ==
  \E k \in Completed :
    /\ calls[k].args.order = 1
    /\ Post(k)[RetCb1(k)].par[6] = 1
    /\ Post(k)[RetCb2(k)].par[6] = 0

WritesThick(k, i, surf, v) ==
  /\ i \in 1..Len(calls[k].log)
  /\ calls[k].log[i].op = "zSetSurfaceData"
  /\ calls[k].log[i].code = "SDAT_THICK"
  /\ calls[k].log[i].surf = surf
  /\ calls[k].log[i].val = <<v>>

\* the i-th session call of the k-th operation sets the thickness solve of surf to type t
WritesThickSolve(k, i, surf, t) ==
  /\ i \in 1..Len(calls[k].log)
  /\ calls[k].log[i].op = "zSetSolve"
  /\ calls[k].log[i].code = "SOLVE_SPAR_THICK"
  /\ calls[k].log[i].surf = surf
  /\ calls[k].log[i].val[1] = t

TwoTransforms == Len(calls) = 2 /\ 1 \in Completed /\ 2 \in Completed

SecondAbove == TwoTransforms /\ First(2) > RetDummy(1)

SecondBelow == TwoTransforms /\ Last(2) < First(1)

\* the surfaces of the first assembly are at idx: s1, cb1, trailing surface, cb2, dummy
FirstAssemblyAt(s, idx) ==
  /\ HasUid(s, idx[1], UidBase(1) + 1)
  /\ HasUid(s, idx[2], UidBase(1) + 2)
  /\ HasUid(s, idx[3], calls[1].pre[Last(1)].uid)
  /\ HasUid(s, idx[4], UidBase(1) + 3)
  /\ HasUid(s, idx[5], UidBase(1) + 4)

\* the solves of the first assembly refer to the surfaces at idx
FirstChainRefersTo(s, idx) ==
  /\ \A p \in 1..5 : s[idx[4]].parSolve[p][2] = idx[2]
  /\ s[idx[2]].thickSolve[2] = idx[1]
  /\ s[idx[3]].thickSolve[2] = idx[2]
  /\ s[idx[4]].thickSolve[2] = idx[3]
  /\ s[idx[5]].glassSolve[2] = idx[3]

\* the indices the first call returned, with s1 and the trailing surface it implies
ReturnedAssembly(d) ==
  << First(1) + d, RetCb1(1) + d, Last(1) + 2 + d, RetCb2(1) + d, RetDummy(1) + d >>

C8_WitnessBelow ==
  /\ SecondBelow
  /\ FirstAssemblyAt(dde, ReturnedAssembly(4))

(***************************************************************************)
(* C9 (as stated): with pivotDepth = 0 the axial position of the surface   *)
(* that follows the dummy surface after the call equals the axial position *)
(* the trailing surface of the group had before the call.                  *)
(***************************************************************************)
C9_AsStated ==
  \A k \in Completed :
    calls[k].args.pivot_z = 0
      => Pos(Post(k), RetDummy(k) + 1) = Pos(calls[k].pre, Last(k))

(***************************************************************************)
(* C9 (amended): with pivotDepth = 0 the axial position of the dummy       *)
(* surface after the call equals the axial position the trailing surface   *)
(* of the group had before the call; the surface that follows the dummy    *)
(* surface lies beyond it by the thickness of the dummy surface.           *)
(***************************************************************************)
C9_DummyAtTrailingPosition ==
  \A k \in Completed :
    calls[k].args.pivot_z = 0
      => /\ Pos(Post(k), RetDummy(k)) = Pos(calls[k].pre, Last(k))
         /\ Pos(Post(k), RetDummy(k) + 1)
              = Pos(calls[k].pre, Last(k)) + Post(k)[RetDummy(k)].thick

C9_Witness ==
  \E k \in Completed :
    /\ calls[k].args.pivot_z = 0
    /\ First(k) + 1 < Last(k)
    /\ Pos(calls[k].pre, Last(k)) > Pos(calls[k].pre, First(k))
    /\ Pos(Post(k), RetDummy(k)) = Pos(calls[k].pre, Last(k))

(***************************************************************************)
(* C10 (the claim): addTiltAndDecentre gives the same final sequence and   *)
(* the same (cb1, cb2, dummy) as addTiltAndDecentreAboutPivot with the     *)
(* same arguments and pivot_z = 0.                                         *)
(***************************************************************************)
C10_FrontEqualsPivotZero ==
  \A k \in 1..Len(calls) :
    LET c == calls[k]
        r == PivotRun(c.pre, c.pre, [c.args EXCEPT !.pivot_z = 0], UidBase(k))
    IN  (c.op = "addTiltAndDecentre" /\ c.args.lastSurf < Len(c.pre))
          => /\ c.status = "ok"
             /\ Post(k) = r.seq
             /\ c.ret = PivotReturn(c.args)

(***************************************************************************)
(* C11: two completed transforms called with the same (firstSurf,          *)
(* lastSurf).                                                              *)
(***************************************************************************)
SameBoundsTwice == TwoTransforms /\ First(2) = First(1) /\ Last(2) = Last(1)

\* where the surface of identity u is in s
IndexOfUid(s, u) == CHOOSE i \in 1..Len(s) : s[i].uid = u

\* the four links of the constraint chain of the first assembly, each one
\* referring to the place its own surface has in s
MirrorLink(s) ==
  \A p \in 1..5 :
    s[IndexOfUid(s, UidBase(1) + 3)].parSolve[p]
      = <<2, IndexOfUid(s, UidBase(1) + 2), 0, -1, p + 5>>

Cb1Link(s) ==
  s[IndexOfUid(s, UidBase(1) + 2)].thickSolve
    = <<5, IndexOfUid(s, UidBase(1) + 1), -1, 0, 0>>

TrailingLink(s) ==
  s[IndexOfUid(s, calls[1].pre[Last(1)].uid)].thickSolve
    = <<7, IndexOfUid(s, UidBase(1) + 2), 0, 0, 0>>

Cb2Link(s) ==
  s[IndexOfUid(s, UidBase(1) + 3)].thickSolve
    = <<5, IndexOfUid(s, calls[1].pre[Last(1)].uid), -1, 0, 0>>

FirstChainIntact(s) == MirrorLink(s) /\ Cb1Link(s) /\ TrailingLink(s) /\ Cb2Link(s)

(***************************************************************************)
(* C11 (as stated): two transforms with the same bounds insert eight       *)
(* surfaces in total, and after the second the constraint chain of the     *)
(* first assembly (mirror pickups of cb2 on cb1, thickness pickup of cb1   *)
(* on s1, position solve of the trailing surface on cb1, thickness pickup  *)
(* of cb2 on the trailing surface) still refers to its own surfaces.       *)
(***************************************************************************)
C11_AsStated ==
  SameBoundsTwice
    => /\ Len(dde) = Len(calls[1].pre) + 8
       /\ FirstChainIntact(dde)

(***************************************************************************)
(* C11 (amended): two transforms with the same bounds insert eight         *)
(* surfaces in total; after the second the chain of the first assembly     *)
(* still refers to its own surfaces, unless the group has two surfaces:    *)
(* then the trailing surface of the second call is cb1 of the first        *)
(* assembly, whose thickness pickup on s1 is replaced by a position solve  *)
(* on cb1 of the second assembly, the other three links being kept.        *)
(***************************************************************************)
C11_TwiceSameBounds ==
  SameBoundsTwice
    => /\ Len(dde) = Len(calls[1].pre) + 8
       /\ Last(1) # First(1) + 1 => FirstChainIntact(dde)
       /\ Last(1) = First(1) + 1
            => /\ IndexOfUid(dde, UidBase(1) + 2) = Last(2) + 2
               /\ dde[Last(2) + 2].thickSolve = <<7, RetCb1(2), 0, 0, 0>>
               /\ HasUid(dde, RetCb1(2), UidBase(2) + 2)
               /\ MirrorLink(dde) /\ TrailingLink(dde) /\ Cb2Link(dde)

C11_Witness ==
  /\ SameBoundsTwice
  /\ Last(1) = First(1)
  /\ Len(dde) = Len(calls[1].pre) + 8
  /\ IndexOfUid(dde, UidBase(1) + 1) = First(1) + 2
  /\ FirstChainIntact(dde)

(***************************************************************************)
(* C12: a failing session call ends addTiltAndDecentreAboutPivot.          *)
(***************************************************************************)
\* the session calls the k-th operation makes when none fails
ProgramCalls(k) ==
  IF Last(k) \in 1..Len(calls[k].pre)
    THEN ReadCommands(Last(k)) \o WriteCommands(calls[k].args, Thick0(k), Solve0(k))
    ELSE ReadCommands(Last(k))

\* how many of the first n session calls of the k-th operation are insertions
InsertionsBefore(k, n) ==
  Cardinality({i \in 1..(n - 1) : calls[k].log[i].op = "zInsertSurface"})

IsRead(c) == c.op \in {"zGetSurfaceData", "zGetSolve"}

IsWrite(c) == c.op \in {"zSetSurfaceData", "zSetSolve", "zSetSurfaceParameter"}

\* the places of the insertions in the session calls of the k-th operation
Insertions(k) ==
  {i \in 1..Len(calls[k].log) : calls[k].log[i].op = "zInsertSurface"}

(***************************************************************************)
(* C13: in every completed transform the thickness and the thickness solve *)
(* of the surface at lastSurf are both read before the first insertion;    *)
(* there are exactly four insertions, at s1, cb1, cb2 and dummy in that    *)
(* order, each at a higher index than the one before; no value or solve is *)
(* written before the fourth insertion; and the update and the push of the *)
(* lens come after the last write, the push being the last call.           *)
(***************************************************************************)
C13_CallOrder ==
  \A k \in Completed :
    LET log == calls[k].log
        ins == Insertions(k)
    IN  /\ Cardinality(ins) = 4
        /\ \E r1, r2 \in 1..Len(log) :
             /\ log[r1] = Cmd("zGetSurfaceData", Last(k), "SDAT_THICK", 0, <<>>)
             /\ log[r2] = Cmd("zGetSolve", Last(k), "SOLVE_SPAR_THICK", 0, <<>>)
             /\ \A i \in ins : r1 < i /\ r2 < i
        /\ \A i \in 1..Len(log) : IsRead(log[i]) => \A j \in ins : i < j
        /\ \A i, j \in ins : i < j => log[i].surf < log[j].surf
        /\ \E i1, i2, i3, i4 \in ins :
             /\ i1 < i2 /\ i2 < i3 /\ i3 < i4
             /\ log[i1].surf = First(k)
             /\ log[i2].surf = RetCb1(k)
             /\ log[i3].surf = RetCb2(k)
             /\ log[i4].surf = RetDummy(k)
        /\ \A w \in 1..Len(log) : IsWrite(log[w]) => \A i \in ins : i < w
        /\ log[Len(log)].op = "zPushLens"
        /\ \E u \in 1..Len(log) :
             /\ log[u].op = "zGetUpdate"
             /\ \A w \in 1..Len(log) : IsWrite(log[w]) => w < u

C13_Witness ==
  \E k \in Completed :
    /\ First(k) < Last(k)
    /\ Insertions(k) = {3, 4, 5, 6}
    /\ IsRead(calls[k].log[1]) /\ IsRead(calls[k].log[2])
    /\ IsWrite(calls[k].log[7])
    /\ calls[k].log[6].surf = Last(k) + 4
    /\ calls[k].log[Len(calls[k].log)].op = "zPushLens"

(***************************************************************************)
(* C14: for every group of n >= 1 surfaces, after a completed transform s1 *)
(* is at firstSurf and cb1 at firstSurf + 1, the n surfaces of the group   *)
(* are in their order at cb1 + 1 .. cb2 - 1 with cb2 = cb1 + n + 1, dummy  *)
(* is at cb2 + 1, and the surface that followed the group is at dummy + 1. *)
(***************************************************************************)
C14_FinalLayout ==
  \A k \in Completed :
    LET pre == calls[k].pre
        post == Post(k)
        n == Last(k) - First(k) + 1
    IN  /\ n >= 1
        /\ HasUid(post, First(k), UidBase(k) + 1)
        /\ RetCb1(k) = First(k) + 1
        /\ HasUid(post, RetCb1(k), UidBase(k) + 2)
        /\ RetCb2(k) = RetCb1(k) + n + 1
        /\ \A j \in 1..n : HasUid(post, RetCb1(k) + j, pre[First(k) + j - 1].uid)
        /\ HasUid(post, RetCb2(k), UidBase(k) + 3)
        /\ RetDummy(k) = RetCb2(k) + 1
        /\ HasUid(post, RetDummy(k), UidBase(k) + 4)
        /\ Last(k) < Len(pre) => HasUid(post, RetDummy(k) + 1, pre[Last(k) + 1].uid)
        /\ \A i \in 1..(First(k) - 1) : HasUid(post, i, pre[i].uid)

C14_Witness ==
  \E k \in Completed :
    /\ First(k) = Last(k)
    /\ First(k) > 1
    /\ HasUid(Post(k), First(k) + 2, calls[k].pre[First(k)].uid)
    /\ HasUid(Post(k), First(k) + 3, UidBase(k) + 3)
    /\ HasUid(Post(k), First(k) + 5, calls[k].pre[First(k) + 1].uid)

C14_WitnessGroup ==
  \E k \in Completed :
    /\ Last(k) = First(k) + 2
    /\ \A j \in 1..3 : HasUid(Post(k), First(k) + 1 + j, calls[k].pre[First(k) + j - 1].uid)
    /\ HasUid(Post(k), First(k) + 5, UidBase(k) + 3)

(***************************************************************************)
(* C15: the thickness solves of the pivot chain after a completed          *)
(* transform.                                                              *)
(***************************************************************************)
\* the last session call of the k-th operation that sets the thickness solve of surf
LastThickSolveWrite(k, surf) ==
  LET ws == {i \in 1..Len(calls[k].log) :
               /\ calls[k].log[i].op = "zSetSolve"
               /\ calls[k].log[i].code = "SOLVE_SPAR_THICK"
               /\ calls[k].log[i].surf = surf}
  IN  CHOOSE i \in ws : \A j \in ws : j <= i

\* the surface holds the thickness solve sv, which is the last one written to it
HoldsLastWritten(k, surf, sv) ==
  /\ Post(k)[surf].thickSolve = sv
  /\ Pad5(calls[k].log[LastThickSolveWrite(k, surf)].val) = sv

(***************************************************************************)
(* C15: when the transform returns, s1 is Fixed with thickness pivot_z,    *)
(* cb1 is a pickup of the thickness of s1 with scale -1 and offset 0, the  *)
(* trailing surface of the group (lastSurf + 2) has a position solve on    *)
(* cb1 with length 0, and cb2 is a pickup of the thickness of the trailing *)
(* surface with scale -1 and offset 0; each of the four holds exactly the  *)
(* solve written to it last.                                               *)
(***************************************************************************)
C15_PivotChain ==
  \A k \in Completed :
    LET post == Post(k)
        s1 == First(k)
        trail == Last(k) + 2
    IN  /\ HoldsLastWritten(k, s1, <<SOLVE_THICK_FIXED, 0, 0, 0, 0>>)
        /\ post[s1].thick = calls[k].args.pivot_z
        /\ HoldsLastWritten(k, RetCb1(k), <<SOLVE_THICK_PICKUP, s1, -1, 0, 0>>)
        /\ post[RetCb1(k)].thick = (-1) * calls[k].args.pivot_z
        /\ HoldsLastWritten(k, trail, <<SOLVE_THICK_POS, RetCb1(k), 0, 0, 0>>)
        /\ trail = RetCb2(k) - 1
        /\ HoldsLastWritten(k, RetCb2(k), <<SOLVE_THICK_PICKUP, trail, -1, 0, 0>>)
        /\ post[RetCb2(k)].thick = (-1) * post[trail].thick

C15_Witness ==
  \E k \in Completed :
    /\ calls[k].args.pivot_z = 2
    /\ First(k) < Last(k)
    /\ Post(k)[First(k)].thick = 2
    /\ Post(k)[RetCb1(k)].thick = -2
    /\ Post(k)[Last(k) + 2].thickSolve[1] = SOLVE_THICK_POS
    /\ Post(k)[RetCb2(k)].thickSolve = <<5, Last(k) + 2, -1, 0, 0>>
    /\ Post(k)[RetCb2(k)].thick > 0

(***************************************************************************)
(* C16 (the claim): when the transform returns, cb1 and cb2 are            *)
(* coordinate breaks and the inserted surfaces carry the comments          *)
(* 'Move to pivot' (s1), 'Element tilt and return from pivot' (cb1),       *)
(* 'Element tilt return and move to rear' (cb2), 'Dummy distance' (dummy). *)
(***************************************************************************)
C16_KindsAndComments ==
  \A k \in Completed :
    LET post == Post(k)
    IN  /\ post[RetCb1(k)].kind = "COORDBRK"
        /\ post[RetCb2(k)].kind = "COORDBRK"
        /\ post[First(k)].comment = "Move to pivot"
        /\ post[RetCb1(k)].comment = "Element tilt and return from pivot"
        /\ post[RetCb2(k)].comment = "Element tilt return and move to rear"
        /\ post[RetDummy(k)].comment = "Dummy distance"

(***************************************************************************)
(* C17: after a completed transform the glass solve of the dummy surface   *)
(* is a pickup from lastSurf + 2, and the surface at lastSurf + 2 is the   *)
(* surface that was at lastSurf before the call, right before cb2.         *)
(***************************************************************************)
C17_DummyGlassPickup ==
  \A k \in Completed :
    LET post == Post(k)
    IN  /\ post[RetDummy(k)].glassSolve = <<SOLVE_GLASS_PICKUP, Last(k) + 2, 0, 0, 0>>
        /\ HasUid(post, Last(k) + 2, calls[k].pre[Last(k)].uid)
        /\ Last(k) + 2 = RetCb2(k) - 1

C17_Witness ==
  \E k \in Completed :
    /\ First(k) < Last(k)
    /\ Post(k)[RetDummy(k)].glassSolve[1] = SOLVE_GLASS_PICKUP
    /\ Post(k)[RetDummy(k)].glassSolve[2] = Last(k) + 2
    /\ Post(k)[Last(k) + 2].uid = calls[k].pre[Last(k)].uid

(***************************************************************************)
(* C18: what a completed transform leaves alone.                           *)
(***************************************************************************)
\* where the surface that was at i before the k-th operation is after it
NewIndex(k, i) ==
  IF i < First(k) THEN i ELSE IF i <= Last(k) THEN i + 2 ELSE i + 4

\* new is the thickness solve old, referring to the surface old referred to
SameSolve(k, old, new) ==
  /\ new[1] = old[1]
  /\ new[3] = old[3] /\ new[4] = old[4] /\ new[5] = old[5]
  /\ new[2] = IF old[1] \in SurfaceRefSolveTypes THEN NewIndex(k, old[2]) ELSE old[2]

\* the surfaces there were before the k-th operation keep their order, kind,
\* comment and parameter values
OriginalsKept(k) ==
  \A i \in 1..Len(calls[k].pre) :
    LET old == calls[k].pre[i]
        new == Post(k)[NewIndex(k, i)]
    IN  /\ new.uid = old.uid
        /\ new.kind = old.kind
        /\ new.comment = old.comment
        /\ new.par = old.par

\* those other than the trailing surface of the group keep their thickness solve
SolvesKept(k) ==
  \A i \in 1..Len(calls[k].pre) :
    i # Last(k)
      => SameSolve(k, calls[k].pre[i].thickSolve, Post(k)[NewIndex(k, i)].thickSolve)

\* those other than the trailing surface of the group keep their thickness
ThicknessesKept(k) ==
  \A i \in 1..Len(calls[k].pre) :
    i # Last(k) => Post(k)[NewIndex(k, i)].thick = calls[k].pre[i].thick

\* no value is written to parameters 1..5 of cb2
Cb2ValuesNotWritten(k) ==
  \A j \in 1..Len(calls[k].log) :
    ~ /\ calls[k].log[j].op = "zSetSurfaceParameter"
      /\ calls[k].log[j].surf = RetCb2(k)
      /\ calls[k].log[j].par \in 1..5

(***************************************************************************)
(* C18 (the claim): a completed transform changes no surface that was      *)
(* there before other than the trailing surface of the group: every such   *)
(* surface keeps its kind, comment and parameter values, every one but the *)
(* trailing surface keeps its thickness and its thickness solve, they keep *)
(* their order (index kept below firstSurf, plus 2 in the group, plus 4    *)
(* above lastSurf), and no value is written to parameters 1..5 of cb2.     *)
(***************************************************************************)
C18_Frame ==
  \A k \in Completed :
    /\ OriginalsKept(k)
    /\ SolvesKept(k)
    /\ ThicknessesKept(k)
    /\ Cb2ValuesNotWritten(k)

(***************************************************************************)
(* C19 (the claim): setFieldType with a field_type outside 0..3 raises     *)
(* ControllerFunctionError and does not write system property 100; with a  *)
(* field_type in 0..3 it writes that value to system property 100.         *)
(***************************************************************************)
C19_OnlyEnumeratedFieldTypes ==
  \A k \in 1..Len(calls) :
    calls[k].op = "setFieldType"
      => LET ft == calls[k].args.field_type
             log == calls[k].log
         IN  /\ ft \notin 0..3
                  => /\ calls[k].status = "error"
                     /\ \A i \in 1..Len(log) : log[i].op # "zSetSystemProperty"
             /\ ft \in 0..3
                  => /\ calls[k].status = "ok"
                     /\ log = << Cmd("zSetSystemProperty", 0, "", 100, <<ft>>) >>

====
